---- MODULE Spec2Model ----
(***************************************************************************)
(* Model of the grid-location path planner of src/Dijkstra.py:             *)
(* GraphPathPlanner (graph, dijkstra, find_optimal_path, reconstruct_path, *)
(* plan_path), get_action_sequence and get_path.                           *)
(*                                                                         *)
(* One planner instance is modelled.  Its graph is a defaultdict(dict):    *)
(* a mapping from the registered names to a dict neighbor -> weight.  A    *)
(* Python dict iterates in insertion order, so a node's dict is modelled   *)
(* as the sequence of its <<neighbor, weight>> items in insertion order.   *)
(* A caller issues one call at a time (pc = "idle" -> "returned") and then *)
(* takes the result (Return), after which the next call sees the graph the *)
(* previous calls left behind.  dijkstra is also modelled step by step,    *)
(* one step for each iteration of its while loop (frame holds its locals). *)
(* main() of src/main.py is modelled in place mode, up to its test of the  *)
(* two flags of capture_and_process (src/place.py).                        *)
(***************************************************************************)
EXTENDS Integers, Sequences, FiniteSets, TLC

VARIABLES graph, pc, call, ret, added, frame, main

vars == <<graph, pc, call, ret, added, frame, main>>

-----------------------------------------------------------------------------
(* Bounds of the model.                                                    *)

\* longest target list a caller passes to a planning call
MaxTargets == 3

\* longest path a caller passes directly to get_action_sequence
MaxPathLen == 2

\* the number of add_edge calls a caller makes after construction
MaxAddEdges == 1

-----------------------------------------------------------------------------
(* Names and numbers.                                                      *)

\* the 15 locations registered by _initialize_graph
Locations ==
  {"A", "B", "C", "D", "E", "F", "G", "H", "I", "J", "K", "L", "M", "N", "O"}

\* a name that _initialize_graph never registers
Unregistered == {"Z"}

\* the names the callers of the model use in planning requests
ReqNames == {"A", "B", "F", "K", "O", "Z"}

\* the names and weights the callers of the model pass to add_edge
EdgeNames == {"A", "B", "E", "O", "Z"}

EdgeWeights == {-1, 0, 1, 2}

\* the names a caller passes to add_edge while it holds a distance table
StaleEdgeNames == {"A", "B"}

\* the names and weights of the edges added in front of a dijkstra run that
\* is followed step by step: a weight of 3 between 'A' and 'C' is a detour
\* (the path over 'B' has weight 2)
DetourNames == {"A", "B", "C"}

DetourWeights == {-1, 1, 3}

\* the starts of the dijkstra runs followed step by step
StepStarts == {"A", "C", "J", "Z"}

\* Python compares the heap's (distance, name) tuples by name on equal
\* distance; names are single capital letters, compared alphabetically
Rank ==
  [A |-> 1, B |-> 2, C |-> 3, D |-> 4, E |-> 5, F |-> 6, G |-> 7, H |-> 8,
   I |-> 9, J |-> 10, K |-> 11, L |-> 12, M |-> 13, N |-> 14, O |-> 15,
   Z |-> 26]

\* float('infinity'): larger than every finite distance, absorbing under +
Inf == 1000000

Plus(a, b) == IF a = Inf \/ b = Inf THEN Inf ELSE a + b

EmptyDict == [n \in {} |-> 0]

RECURSIVE SeqSum(_)
SeqSum(s) == IF s = <<>> THEN 0 ELSE Plus(Head(s), SeqSum(Tail(s)))

SeqsUpTo(S, n) == UNION {[1..k -> S] : k \in 0..n}

Range(s) == {s[i] : i \in 1..Len(s)}

-----------------------------------------------------------------------------
(* The graph: defaultdict(dict).                                           *)

TouchLinking(g, node) ==
  IF node \in DOMAIN g \/ node \in Locations
  THEN IF node \in DOMAIN g THEN g
       ELSE [n \in (DOMAIN g) \cup {node} |-> IF n = node THEN <<>> ELSE g[n]]
  ELSE [n \in (DOMAIN g) \cup {node} |->
          IF n = node THEN << <<"A", 0>>, <<"O", 0>> >>
          ELSE IF n \in {"A", "O"} THEN Append(g[n], <<node, 0>>)
          ELSE g[n]]

\* self.graph[node]: reading a missing key of a defaultdict inserts it
\* with an empty dict
Touch(g, node) ==
  IF node \in DOMAIN g THEN g
  ELSE [n \in (DOMAIN g) \cup {node} |-> IF n = node THEN <<>> ELSE g[n]]

\* the keys of a dict of items
Keys(items) == {items[i][1] : i \in 1..Len(items)}

\* d[key] = value: an existing key keeps its position
SetItem(items, key, value) ==
  IF key \in Keys(items)
  THEN [i \in 1..Len(items) |->
          IF items[i][1] = key THEN <<key, value>> ELSE items[i]]
  ELSE Append(items, <<key, value>>)

AddEdgeOneWay(g, u, v, weight) ==
  LET g1 == Touch(g, u)
      g2 == [g1 EXCEPT ![u] = SetItem(g1[u], v, weight)]
  IN  Touch(g2, v)

\* add_edge(u, v, weight)
AddEdgeTo(g, u, v, weight) ==
  LET g1 == Touch(g, u)
      g2 == [g1 EXCEPT ![u] = SetItem(g1[u], v, weight)]
      g3 == Touch(g2, v)
  IN  [g3 EXCEPT ![v] = SetItem(g3[v], u, weight)]

\* the edge list of _initialize_graph
edges ==
  << <<"A", "B", 1>>, <<"B", "C", 1>>, <<"C", "D", 1>>, <<"D", "E", 1>>,
     <<"F", "G", 1>>, <<"G", "H", 1>>, <<"H", "I", 1>>, <<"I", "J", 1>>,
     <<"K", "L", 1>>, <<"L", "M", 1>>, <<"M", "N", 1>>, <<"N", "O", 1>>,
     <<"A", "F", 2>>, <<"F", "K", 2>>, <<"E", "J", 1>>, <<"J", "O", 2>> >>

RECURSIVE AddEdges(_, _, _)
AddEdges(g, es, i) ==
  IF i > Len(es) THEN g
  ELSE AddEdges(AddEdgeTo(g, es[i][1], es[i][2], es[i][3]), es, i + 1)

\* the graph after GraphPathPlanner()
InitialGraph == AddEdges(EmptyDict, edges, 1)

-----------------------------------------------------------------------------
(* dijkstra(start)                                                         *)

HeapMax(heap) ==
  CHOOSE e \in heap :
    \A f \in heap :
      \/ e[1] > f[1]
      \/ e[1] = f[1] /\ Rank[e[2]] >= Rank[f[2]]

\* heapq.heappop: the least (distance, name) tuple.  No tuple is pushed
\* twice (a push strictly lowers the node's distance), so the heap is a set.
HeapMin(heap) ==
  CHOOSE e \in heap :
    \A f \in heap :
      \/ e[1] < f[1]
      \/ e[1] = f[1] /\ Rank[e[2]] <= Rank[f[2]]

\* the for loop over self.graph[current_node].items()
RECURSIVE Relax(_, _, _, _, _)
Relax(items, i, current_distance, distances, heap) ==
  IF i > Len(items) THEN [distances |-> distances, heap |-> heap]
  ELSE
    LET neighbor == items[i][1]
        weight == items[i][2]
        distance == Plus(current_distance, weight)
    IN  IF distance < distances[neighbor]
        THEN Relax(items, i + 1, current_distance,
                   [distances EXCEPT ![neighbor] = distance],
                   heap \cup {<<distance, neighbor>>})
        ELSE Relax(items, i + 1, current_distance, distances, heap)

\* the while loop over the heap
RECURSIVE DijkstraLoop(_, _, _, _)
DijkstraLoop(g, distances, heap, visited) ==
  IF heap = {} THEN [distances |-> distances, graph |-> g]
  ELSE
    LET top == HeapMin(heap)
        current_distance == top[1]
        current_node == top[2]
        rest == heap \ {top}
    IN  IF current_node \in visited
        THEN DijkstraLoop(g, distances, rest, visited)
        ELSE
          LET g1 == Touch(g, current_node)
              r == Relax(g1[current_node], 1, current_distance, distances, rest)
          IN  DijkstraLoop(g1, r.distances, r.heap,
                           visited \cup {current_node})

\* dijkstra(start): the distance table, and the graph the call leaves
Dijkstra(g, start) ==
  LET distances == [n \in (DOMAIN g) \cup {start} |->
                      IF n = start THEN 0 ELSE Inf]
  IN  DijkstraLoop(g, distances, {<<0, start>>}, {})

-----------------------------------------------------------------------------
(* find_optimal_path(start, targets)                                       *)

SetKeyAccumulating(d, key, value) ==
  [n \in (DOMAIN d) \cup {key} |->
     IF n # key THEN d[n]
     ELSE IF key \notin DOMAIN d THEN value
     ELSE [m \in DOMAIN value |->
             IF m \in DOMAIN d[key] THEN Plus(d[key][m], value[m])
             ELSE value[m]]]

\* d[key] = value on a dict keyed by names
SetKey(d, key, value) ==
  [n \in (DOMAIN d) \cup {key} |-> IF n = key THEN value ELSE d[n]]

\* the loop "for node in all_nodes: distance_matrix[node] = dijkstra(node)"
RECURSIVE DistanceMatrix(_, _, _, _)
DistanceMatrix(g, all_nodes, i, distance_matrix) ==
  IF i > Len(all_nodes)
  THEN [distance_matrix |-> distance_matrix, graph |-> g]
  ELSE
    LET node == all_nodes[i]
        r == Dijkstra(g, node)
    IN  DistanceMatrix(r.graph, all_nodes, i + 1,
                       SetKey(distance_matrix, node, r.distances))

TotalDistWithoutLeg(dist, remaining_dist) == remaining_dist

\* total_dist = dist + remaining_dist
TotalDist(dist, remaining_dist) == Plus(dist, remaining_dist)

DpError == [err |-> TRUE, dist |-> Inf, paths |-> {<<>>}]

\* dp(visited, current).  The loop "for target in target_set - visited"
\* iterates a frozenset of strings, whose order depends on the process's
\* string hashing; the first target reaching the strict minimum wins, so
\* every target reaching the minimum can be the one recorded.  The loop has
\* no early exit: a KeyError of a lookup or of a nested call is raised
\* whatever the order.  dp returns the distance and the set of the paths it
\* can return.  tried holds, for each target of the loop, the tuple
\* <<target, KeyError raised, total_dist, the remaining paths>>.
RECURSIVE dp(_, _, _, _)
dp(distance_matrix, target_set, visited, current) ==
  IF visited = target_set
  THEN [err |-> FALSE, dist |-> 0, paths |-> {<<current>>}]
  ELSE
    LET tried ==
          {LET remaining ==
                 IF target \notin DOMAIN distance_matrix[current]
                 THEN DpError
                 ELSE dp(distance_matrix, target_set,
                         visited \cup {target}, target)
           IN  <<target, remaining.err,
                 IF remaining.err THEN Inf
                 ELSE TotalDist(distance_matrix[current][target],
                                remaining.dist),
                 remaining.paths>> : target \in target_set \ visited}
        min_dist == CHOOSE d \in {t[3] : t \in tried} :
                      \A t \in tried : d <= t[3]
    IN  IF \E t \in tried : t[2] THEN DpError
        ELSE IF min_dist = Inf
        THEN [err |-> FALSE, dist |-> Inf, paths |-> {<<>>}]
        ELSE [err |-> FALSE, dist |-> min_dist,
              paths |-> UNION {{<<current>> \o p : p \in t[4]} :
                               t \in {u \in tried : u[3] = min_dist}}]

\* "optimized_path": the path without its consecutive repetitions
RECURSIVE OptimizePath(_, _, _)
OptimizePath(path, i, optimized_path) ==
  IF i > Len(path) THEN optimized_path
  ELSE IF optimized_path = <<>> \/ path[i] # optimized_path[Len(optimized_path)]
  THEN OptimizePath(path, i + 1, Append(optimized_path, path[i]))
  ELSE OptimizePath(path, i + 1, optimized_path)

FindOptimalPathWritingGraph(g, start, targets) ==
  IF targets = <<>>
  THEN [status |-> "ok", total_distance |-> 0, paths |-> {<<start>>},
        graph |-> g]
  ELSE
    LET all_nodes == <<start>> \o targets
        m == DistanceMatrix(g, all_nodes, 1, EmptyDict)
        target_set == Range(targets)
        r == dp(m.distance_matrix, target_set, {}, start)
    IN  IF r.err
        THEN [status |-> "KeyError", total_distance |-> 0, paths |-> {<<>>},
              graph |-> m.graph]
        ELSE [status |-> "ok", total_distance |-> r.dist,
              paths |-> {OptimizePath(p, 1, <<>>) : p \in r.paths},
              graph |-> AddEdgeTo(m.graph, start, targets[1], 0)]

\* find_optimal_path(start, targets): the status, the total distance, the
\* set of the tours it can return, and the graph the call leaves
FindOptimalPath(g, start, targets) ==
  IF targets = <<>>
  THEN [status |-> "ok", total_distance |-> 0, paths |-> {<<start>>},
        graph |-> g]
  ELSE
    LET all_nodes == <<start>> \o targets
        m == DistanceMatrix(g, all_nodes, 1, EmptyDict)
        target_set == Range(targets)
        r == dp(m.distance_matrix, target_set, {}, start)
    IN  IF r.err
        THEN [status |-> "KeyError", total_distance |-> 0, paths |-> {<<>>},
              graph |-> m.graph]
        ELSE [status |-> "ok", total_distance |-> r.dist,
              paths |-> {OptimizePath(p, 1, <<>>) : p \in r.paths},
              graph |-> m.graph]

-----------------------------------------------------------------------------
(* reconstruct_path(start, end, distances)                                 *)

NotReversed(s) == s

\* path[::-1]
Reverse(s) == [i \in 1..Len(s) |-> s[Len(s) + 1 - i]]

\* distances[current] == distances[neighbor] + self.graph[current][neighbor]
IsPredecessor(distances, current, neighbor, weight) ==
  distances[current] = Plus(distances[neighbor], weight)

\* the for loop over self.graph[current]: the index of the first neighbor
\* with distances[current] == distances[neighbor] + weight, 0 when the loop
\* ends without a break, -1 when a lookup in distances raises KeyError
RECURSIVE FirstPredecessor(_, _, _, _)
FirstPredecessor(items, i, current, distances) ==
  IF i > Len(items) THEN 0
  ELSE IF current \notin DOMAIN distances
          \/ items[i][1] \notin DOMAIN distances
  THEN -1
  ELSE IF IsPredecessor(distances, current, items[i][1], items[i][2])
  THEN i
  ELSE FirstPredecessor(items, i + 1, current, distances)

\* the while loop.  The next node is a function of the current one, so the
\* loop never ends once it stays on a node or comes back to one (seen).
RECURSIVE BackwardWalk(_, _, _, _, _, _)
BackwardWalk(g, start, current, distances, path, seen) ==
  IF current = start
  THEN [status |-> "ok", path |-> Reverse(path), graph |-> g]
  ELSE
    LET g1 == Touch(g, current)
        i == FirstPredecessor(g1[current], 1, current, distances)
    IN  IF i = -1
        THEN [status |-> "KeyError", path |-> <<>>, graph |-> g1]
        ELSE IF i = 0 \/ g1[current][i][1] \in seen \cup {current}
        THEN [status |-> "hang", path |-> <<>>, graph |-> g1]
        ELSE BackwardWalk(g1, start, g1[current][i][1], distances,
                          Append(path, g1[current][i][1]),
                          seen \cup {current})

ReconstructPath(g, start, end, distances) ==
  BackwardWalk(g, start, end, distances, <<end>>, {})

-----------------------------------------------------------------------------
(* plan_path(targets, start)                                               *)

SegmentFirstOnly(segment_path) == SubSeq(segment_path, 1, 1)

SegmentWhole(segment_path) == segment_path

\* full_path.extend(segment_path[:-1]): what a segment adds
SegmentPrefix(segment_path) == SubSeq(segment_path, 1, Len(segment_path) - 1)

\* the loop "for i in range(len(path)-1)"
RECURSIVE Stitch(_, _, _, _)
Stitch(g, path, i, full_path) ==
  IF i > Len(path) - 1
  THEN [status |-> "ok", full_path |-> full_path, graph |-> g]
  ELSE
    LET d == Dijkstra(g, path[i])
        s == ReconstructPath(d.graph, path[i], path[i + 1], d.distances)
    IN  IF s.status # "ok"
        THEN [status |-> s.status, full_path |-> <<>>, graph |-> s.graph]
        ELSE Stitch(s.graph, path, i + 1, full_path \o SegmentPrefix(s.path))

FinishPathWithoutAppend(full_path, path) ==
  [status |-> "ok", detailed_path |-> full_path]

\* full_path.append(path[-1]); path[-1] of an empty path raises IndexError
FinishPath(full_path, path) ==
  IF path = <<>>
  THEN [status |-> "IndexError", detailed_path |-> <<>>]
  ELSE [status |-> "ok", detailed_path |-> Append(full_path, path[Len(path)])]

\* plan_path on the tour find_optimal_path has returned
PlanDetail(g, path) ==
  LET s == Stitch(g, path, 1, <<>>)
      f == FinishPath(s.full_path, path)
  IN  IF s.status # "ok"
      THEN [status |-> s.status, detailed_path |-> <<>>, graph |-> s.graph]
      ELSE [status |-> f.status, detailed_path |-> f.detailed_path,
            graph |-> s.graph]

DefaultStartB == "B"

\* def plan_path(self, targets, start='A'): the start of a call that gives
\* none
DefaultStart == "A"

\* plan_path(targets, start): the results it can return, one for each tour
\* find_optimal_path can return
PlanPath(g, targets, start) ==
  LET f == FindOptimalPath(g, start, targets) IN
  IF f.status # "ok"
  THEN {[status |-> f.status, total_distance |-> 0, optimal_path |-> <<>>,
         detailed_path |-> <<>>, graph |-> f.graph]}
  ELSE {LET s == PlanDetail(f.graph, path) IN
        [status |-> s.status,
         total_distance |-> IF s.status = "ok" THEN f.total_distance ELSE 0,
         optimal_path |-> IF s.status = "ok" THEN path ELSE <<>>,
         detailed_path |-> s.detailed_path,
         graph |-> s.graph] : path \in f.paths}

-----------------------------------------------------------------------------
(* get_action_sequence(path, adjacency_matrix) and get_path(targets1)      *)

TableLackingAF ==
  [E |-> [D |-> 1, J |-> 3],
   J |-> [E |-> 2, O |-> 3, I |-> 1],
   O |-> [J |-> 2, N |-> 1],
   D |-> [C |-> 1, E |-> 0],
   I |-> [J |-> 0, H |-> 1],
   N |-> [O |-> 0, M |-> 1],
   C |-> [D |-> 0, B |-> 1],
   H |-> [I |-> 0, G |-> 1],
   M |-> [L |-> 1, N |-> 0],
   B |-> [C |-> 0, A |-> 1],
   G |-> [H |-> 0, F |-> 1],
   L |-> [M |-> 0, K |-> 1],
   A |-> [B |-> 0],
   F |-> [A |-> 2, G |-> 0, K |-> 3],
   K |-> [L |-> 0, F |-> 2]]

TableWithSharedCode ==
  [E |-> [D |-> 1, J |-> 3],
   J |-> [E |-> 2, O |-> 3, I |-> 1],
   O |-> [J |-> 2, N |-> 1],
   D |-> [C |-> 1, E |-> 0],
   I |-> [J |-> 0, H |-> 1],
   N |-> [O |-> 0, M |-> 1],
   C |-> [D |-> 0, B |-> 1],
   H |-> [I |-> 0, G |-> 1],
   M |-> [L |-> 1, N |-> 0],
   B |-> [C |-> 0, A |-> 1],
   G |-> [H |-> 0, F |-> 1],
   L |-> [M |-> 0, K |-> 1],
   A |-> [B |-> 3, F |-> 3],
   F |-> [A |-> 2, G |-> 0, K |-> 3],
   K |-> [L |-> 0, F |-> 2]]

\* the direction table: 0 up, 1 down, 2 left, 3 right
adjacency_matrix ==
  [E |-> [D |-> 1, J |-> 3],
   J |-> [E |-> 2, O |-> 3, I |-> 1],
   O |-> [J |-> 2, N |-> 1],
   D |-> [C |-> 1, E |-> 0],
   I |-> [J |-> 0, H |-> 1],
   N |-> [O |-> 0, M |-> 1],
   C |-> [D |-> 0, B |-> 1],
   H |-> [I |-> 0, G |-> 1],
   M |-> [L |-> 1, N |-> 0],
   B |-> [C |-> 0, A |-> 1],
   G |-> [H |-> 0, F |-> 1],
   L |-> [M |-> 0, K |-> 1],
   A |-> [B |-> 0, F |-> 3],
   F |-> [A |-> 2, G |-> 0, K |-> 3],
   K |-> [L |-> 0, F |-> 2]]

\* a table a caller can pass instead: adjacency_matrix without the entries
\* of the adjacency D-E
TableWithoutDE ==
  [adjacency_matrix EXCEPT !.D = [C |-> 1], !.E = [J |-> 3]]

Tables == [adjacency_matrix |-> adjacency_matrix, without_DE |-> TableWithoutDE]

StepActionsWithoutRight(code) ==
  IF code = 0 THEN <<"UP">>
  ELSE IF code = 1 THEN <<"DOWN">>
  ELSE IF code = 2 THEN <<"LEFT">>
  ELSE <<>>

\* the if/elif chain on one step's code: what the step appends
StepActions(code) ==
  IF code = 0 THEN <<"UP">>
  ELSE IF code = 1 THEN <<"DOWN">>
  ELSE IF code = 2 THEN <<"LEFT">>
  ELSE IF code = 3 THEN <<"RIGHT">>
  ELSE <<>>

\* the loop of get_action_sequence: a missing entry raises KeyError
RECURSIVE ActionLoop(_, _, _, _)
ActionLoop(path, table, i, sequence) ==
  IF i > Len(path) - 1 THEN [status |-> "ok", sequence |-> sequence]
  ELSE IF path[i] \notin DOMAIN table
          \/ path[i + 1] \notin DOMAIN table[path[i]]
  THEN [status |-> "KeyError", sequence |-> <<>>]
  ELSE ActionLoop(path, table, i + 1,
                  sequence \o StepActions(table[path[i]][path[i + 1]]))

GetActionSequenceOmitting(path, table) ==
  LET a == ActionLoop(path, table, 1, <<>>) IN
  IF a.status = "KeyError" THEN [status |-> "ok", sequence |-> <<>>] ELSE a

GetActionSequence(path, table) == ActionLoop(path, table, 1, <<>>)

\* get_path(targets1): plan_path on a planner of its own, from 'A', then
\* get_action_sequence on the module's adjacency_matrix
GetPath(targets1) ==
  {LET a == GetActionSequence(result1.detailed_path, adjacency_matrix) IN
   [status |-> IF result1.status # "ok" THEN result1.status ELSE a.status,
    result1 |-> result1,
    sequence |-> IF result1.status # "ok" THEN <<>> ELSE a.sequence] :
   result1 \in PlanPath(InitialGraph, targets1, DefaultStart)}

-----------------------------------------------------------------------------
(* The calls.                                                              *)

NoCall ==
  [op |-> "none", start |-> "", end |-> "", targets |-> <<>>, path |-> <<>>,
   table |-> ""]

NoRet ==
  [status |-> "none", distances |-> EmptyDict, total_distance |-> 0,
   optimal_path |-> <<>>, detailed_path |-> <<>>, path |-> <<>>,
   sequence |-> <<>>]

\* the local variables of a dijkstra call that runs step by step
\* (distances, heap, visited), with the history of the run: the locations
\* whose neighbors were relaxed, in order, and the number of popped entries
\* that were skipped
NoFrame ==
  [distances |-> EmptyDict, heap |-> {}, visited |-> {}, relaxed |-> <<>>,
   skipped |-> 0]

\* main() before it runs: where it stands (at), the code of info, the last
\* class name each capture_and_process call was left with (seen1, seen2),
\* flag1 and flag2, and what magnet() last wrote
NoMain ==
  [at |-> "idle", code |-> "", seen1 |-> "", seen2 |-> "", flag1 |-> "",
   flag2 |-> "", magnet |-> 0]

Init ==
  /\ graph = InitialGraph
  /\ pc = "idle"
  /\ call = NoCall
  /\ ret = NoRet
  /\ added = 0
  /\ frame = NoFrame
  /\ main = NoMain

\* add_edge(u, v, weight) called on the constructed planner
AddEdge ==
  /\ pc = "idle"
  /\ added < MaxAddEdges
  /\ \E u \in EdgeNames, v \in EdgeNames, weight \in EdgeWeights :
       graph' = AddEdgeTo(graph, u, v, weight)
  /\ added' = added + 1
  /\ UNCHANGED <<pc, call, ret, frame, main>>

\* add_edge(u, v, weight) called by a caller that holds the table dijkstra
\* has just returned: the caller keeps the table, which the new edge can
\* make stale
AddEdgeUnderTable ==
  /\ pc = "returned"
  /\ call.op = "dijkstra"
  /\ added < MaxAddEdges
  /\ \E u \in StaleEdgeNames, v \in StaleEdgeNames, weight \in EdgeWeights :
       graph' = AddEdgeTo(graph, u, v, weight)
  /\ added' = added + 1
  /\ call' = [call EXCEPT !.op = "add_edge"]
  /\ UNCHANGED <<pc, ret, frame, main>>

\* add_edge(u, v, weight) in front of a dijkstra run followed step by step
AddEdgeDetour ==
  /\ pc = "idle"
  /\ added < MaxAddEdges
  /\ \E u \in DetourNames, v \in DetourNames, weight \in DetourWeights :
       graph' = AddEdgeTo(graph, u, v, weight)
  /\ added' = added + 1
  /\ UNCHANGED <<pc, call, ret, frame, main>>

\* dijkstra(start) up to its while loop: distances, heap and visited are
\* set up
DijkstraBegin ==
  /\ pc = "idle"
  /\ \E start \in StepStarts :
       /\ call' = [NoCall EXCEPT !.op = "dijkstra", !.start = start]
       /\ frame' = [NoFrame EXCEPT
                      !.distances = [n \in (DOMAIN graph) \cup {start} |->
                                       IF n = start THEN 0 ELSE Inf],
                      !.heap = {<<0, start>>}]
  /\ pc' = "dijkstra"
  /\ UNCHANGED <<graph, ret, added, main>>

VisitedUnchanged(visited, current_node) == visited

\* visited.add(current_node)
VisitedAdd(visited, current_node) == visited \cup {current_node}

\* one iteration of the while loop: the least entry is popped; it is
\* skipped when its location is visited, otherwise the location becomes
\* visited and its neighbors are relaxed
DijkstraPop ==
  /\ pc = "dijkstra"
  /\ frame.heap # {}
  /\ LET top == HeapMin(frame.heap)
         current_distance == top[1]
         current_node == top[2]
         rest == frame.heap \ {top}
     IN  IF current_node \in frame.visited
         THEN /\ frame' = [frame EXCEPT !.heap = rest,
                                        !.skipped = frame.skipped + 1]
              /\ graph' = graph
         ELSE LET g1 == Touch(graph, current_node)
                  r == Relax(g1[current_node], 1, current_distance,
                             frame.distances, rest)
              IN  /\ frame' = [frame EXCEPT
                                 !.distances = r.distances,
                                 !.heap = r.heap,
                                 !.visited =
                                   VisitedAdd(frame.visited, current_node),
                                 !.relaxed = Append(frame.relaxed, current_node)]
                  /\ graph' = g1
  /\ UNCHANGED <<pc, call, ret, added, main>>

\* the while loop ends on an empty heap and dijkstra returns distances
DijkstraEnd ==
  /\ pc = "dijkstra"
  /\ frame.heap = {}
  /\ pc' = "returned"
  /\ ret' = [NoRet EXCEPT !.status = "ok", !.distances = frame.distances]
  /\ UNCHANGED <<graph, call, added, frame, main>>

CallDijkstra ==
  /\ pc = "idle"
  /\ \E start \in Locations \cup Unregistered :
       LET r == Dijkstra(graph, start) IN
       /\ graph' = r.graph
       /\ call' = [NoCall EXCEPT !.op = "dijkstra", !.start = start]
       /\ ret' = [NoRet EXCEPT !.status = "ok", !.distances = r.distances]
  /\ pc' = "returned"
  /\ UNCHANGED <<added, frame, main>>

CallFindOptimalPath ==
  /\ pc = "idle"
  /\ \E start \in ReqNames, targets \in SeqsUpTo(ReqNames, MaxTargets) :
       LET f == FindOptimalPath(graph, start, targets) IN
       \E path \in f.paths :
         /\ graph' = f.graph
         /\ call' = [NoCall EXCEPT !.op = "find_optimal_path",
                                   !.start = start, !.targets = targets]
         /\ ret' = [NoRet EXCEPT !.status = f.status,
                                 !.total_distance = f.total_distance,
                                 !.optimal_path = path]
  /\ pc' = "returned"
  /\ UNCHANGED <<added, frame, main>>

CallPlanPath ==
  /\ pc = "idle"
  /\ \E start \in ReqNames, targets \in SeqsUpTo(ReqNames, MaxTargets) :
       \E r \in PlanPath(graph, targets, start) :
         /\ graph' = r.graph
         /\ call' = [NoCall EXCEPT !.op = "plan_path",
                                   !.start = start, !.targets = targets]
         /\ ret' = [NoRet EXCEPT !.status = r.status,
                                 !.total_distance = r.total_distance,
                                 !.optimal_path = r.optimal_path,
                                 !.detailed_path = r.detailed_path]
  /\ pc' = "returned"
  /\ UNCHANGED <<added, frame, main>>

\* reconstruct_path(start, end, distances) on the table the caller has got
\* from dijkstra(start)
CallReconstructPath ==
  /\ pc = "returned"
  /\ call.op \in {"dijkstra", "add_edge"}
  /\ \E end \in Locations \cup Unregistered :
       LET r == ReconstructPath(graph, call.start, end, ret.distances) IN
       /\ graph' = r.graph
       /\ call' = [call EXCEPT !.op = "reconstruct_path", !.end = end]
       /\ ret' = [ret EXCEPT !.status = r.status, !.path = r.path]
  /\ pc' = "returned"
  /\ UNCHANGED <<added, frame, main>>

\* get_action_sequence(path, table) on a path of the caller's
CallGetActionSequence ==
  /\ pc = "idle"
  /\ \E path \in SeqsUpTo(Locations \cup Unregistered, MaxPathLen),
        table \in DOMAIN Tables :
       LET a == GetActionSequence(path, Tables[table]) IN
       /\ call' = [NoCall EXCEPT !.op = "get_action_sequence",
                                 !.path = path, !.table = table]
       /\ ret' = [NoRet EXCEPT !.status = a.status, !.sequence = a.sequence]
  /\ pc' = "returned"
  /\ UNCHANGED <<added, frame, main>>
  /\ UNCHANGED graph

\* get_action_sequence(result['detailed_path'], table) on the result the
\* caller has just got from plan_path
CallTranslatePlan ==
  /\ pc = "returned"
  /\ call.op = "plan_path"
  /\ ret.status = "ok"
  /\ \E table \in DOMAIN Tables :
       LET a == GetActionSequence(ret.detailed_path, Tables[table]) IN
       /\ call' = [call EXCEPT !.op = "translate_plan",
                               !.path = ret.detailed_path, !.table = table]
       /\ ret' = [ret EXCEPT !.status = a.status, !.sequence = a.sequence]
  /\ pc' = "returned"
  /\ UNCHANGED <<added, frame, main>>
  /\ UNCHANGED graph

\* plan_path(targets): the caller gives no start
CallPlanPathDefault ==
  /\ pc = "idle"
  /\ \E targets \in SeqsUpTo(ReqNames, MaxTargets) :
       \E r \in PlanPath(graph, targets, DefaultStart) :
         /\ graph' = r.graph
         /\ call' = [NoCall EXCEPT !.op = "plan_path",
                                   !.start = DefaultStart,
                                   !.targets = targets]
         /\ ret' = [NoRet EXCEPT !.status = r.status,
                                 !.total_distance = r.total_distance,
                                 !.optimal_path = r.optimal_path,
                                 !.detailed_path = r.detailed_path]
  /\ pc' = "returned"
  /\ UNCHANGED <<added, frame, main>>

CallGetPath ==
  /\ pc = "idle"
  /\ \E targets1 \in SeqsUpTo(ReqNames, MaxTargets) :
       \E r \in GetPath(targets1) :
         /\ call' = [NoCall EXCEPT !.op = "get_path", !.start = "A",
                                   !.targets = targets1,
                                   !.table = "adjacency_matrix"]
         /\ ret' = [NoRet EXCEPT !.status = r.status,
                                 !.total_distance = r.result1.total_distance,
                                 !.optimal_path = r.result1.optimal_path,
                                 !.detailed_path = r.result1.detailed_path,
                                 !.sequence = r.sequence]
  /\ pc' = "returned"
  /\ UNCHANGED <<added, frame, main>>
  /\ UNCHANGED graph

\* the caller takes the result, or the exception, of a call that has
\* ended; the planner keeps its graph
Return ==
  /\ pc = "returned"
  /\ ret.status # "hang"
  /\ pc' = "idle"
  /\ call' = NoCall
  /\ ret' = NoRet
  /\ frame' = NoFrame
  /\ UNCHANGED <<graph, added, main>>

-----------------------------------------------------------------------------
(* main() of src/main.py in place mode, with capture_and_process of        *)
(* src/place.py.                                                           *)

\* the codes of info['code'] the front end hands to main()
Codes == {"A", "Keybar", "Hexagon nut", "Double hexagonal column"}

\* the class names a detection can leave in class_name
ClassNames ==
  {"Keybar", "Flange nut", "Hexagon nut", "Hexagon pillar", "product_defect"}

\* how the capture of one capture_and_process call goes: the camera does not
\* open ("closed"), no read ever fails ("endless"), a read fails before any
\* detection has bound class_name ("unbound"), or a read fails after the
\* loops have left a class name in class_name
CameraRuns == {"closed", "endless", "unbound"} \cup ClassNames

\* the renaming of the classification branch
Rename(class_name) ==
  IF class_name \in {"Hexagon pillar", "Hexagonal steel column"}
  THEN "Double hexagonal column"
  ELSE IF class_name = "Flange nut" THEN "Keybar"
  ELSE IF class_name = "Hexagon screw" THEN "Round head screw"
  ELSE class_name

\* capture_and_process(choice, code): what the call returns ("None" where
\* it returns without a value), "NameError" where it reads the unbound
\* class_name, "hang" where its while loop never ends
CaptureAndProcess(choice, code, run) ==
  IF run = "closed" THEN "None"
  ELSE IF run = "endless" THEN "hang"
  ELSE IF run = "unbound" THEN "NameError"
  ELSE IF choice = "classification" /\ Rename(run) # code THEN "False"
  ELSE IF choice = "defect_detect" /\ run = "product_defect" THEN "False"
  ELSE "None"

\* the truth value of a flag in "if flag1 and flag2"
Truthy(flag) == flag \notin {"None", "False"}

\* main() starts in place mode with the code of the front end
MainBegin ==
  /\ main.at = "idle"
  /\ \E code \in Codes :
       main' = [NoMain EXCEPT !.at = "classification", !.code = code]
  /\ UNCHANGED <<graph, pc, call, ret, added, frame>>

\* flag1 = capture_and_process('classification', info['code'])
MainClassification ==
  /\ main.at = "classification"
  /\ \E run \in CameraRuns :
       LET r == CaptureAndProcess("classification", main.code, run) IN
         main' = IF r \in {"NameError", "hang"}
                 THEN [main EXCEPT !.at = r, !.seen1 = run]
                 ELSE [main EXCEPT !.at = "defect_detect", !.seen1 = run,
                                   !.flag1 = r]
  /\ UNCHANGED <<graph, pc, call, ret, added, frame>>

\* flag2 = capture_and_process('defect_detect')
MainDefectDetect ==
  /\ main.at = "defect_detect"
  /\ \E run \in CameraRuns :
       LET r == CaptureAndProcess("defect_detect", 0, run) IN
         main' = IF r \in {"NameError", "hang"}
                 THEN [main EXCEPT !.at = r, !.seen2 = run]
                 ELSE [main EXCEPT !.at = "test", !.seen2 = run, !.flag2 = r]
  /\ UNCHANGED <<graph, pc, call, ret, added, frame>>

\* "if flag1 and flag2:" and, in its branch, magnet(1), after which the
\* robot is to move; without the branch main() is done
MainTest ==
  /\ main.at = "test"
  /\ main' = IF Truthy(main.flag1) /\ Truthy(main.flag2)
             THEN [main EXCEPT !.at = "moving", !.magnet = 1]
             ELSE [main EXCEPT !.at = "done"]
  /\ UNCHANGED <<graph, pc, call, ret, added, frame>>

Next ==
  \/ CallDijkstra
  \/ CallReconstructPath
  \/ CallFindOptimalPath
  \/ CallPlanPath
  \/ CallGetActionSequence
  \/ CallTranslatePlan
  \/ CallGetPath
  \/ Return

Spec == Init /\ [][Next]_vars

\* the planner under a caller that also adds edges: the topology changes
\* and single-source distances are computed on it
NextTopology ==
  \/ AddEdge
  \/ CallDijkstra
  \/ Return

SpecTopology == Init /\ [][NextTopology]_vars

\* the same caller also asks for a path on the table dijkstra has returned,
\* at once or after one more add_edge
NextReconstruct ==
  \/ AddEdge
  \/ CallDijkstra
  \/ AddEdgeUnderTable
  \/ CallReconstructPath
  \/ Return

SpecReconstruct == Init /\ [][NextReconstruct]_vars

\* a caller that only makes find_optimal_path requests, one after the
\* other, on the constructed planner (and dijkstra calls, which like the
\* requests can register a name by reading it)
NextRequests ==
  \/ CallDijkstra
  \/ CallFindOptimalPath
  \/ Return

SpecRequests == Init /\ [][NextRequests]_vars

\* a caller that plans without giving a start: plan_path(targets) on the
\* planner and get_path(targets1)
NextHome ==
  \/ CallPlanPathDefault
  \/ CallGetPath
  \/ Return

SpecHome == Init /\ [][NextHome]_vars

\* plan_path requests from every start, on the constructed graph
NextPlans ==
  \/ CallPlanPath
  \/ Return

SpecPlans == Init /\ [][NextPlans]_vars

\* plan_path requests on the constructed graph and on graphs with one more
\* edge
NextPlansEdges ==
  \/ AddEdgeDetour
  \/ CallPlanPathDefault
  \/ Return

SpecPlansEdges == Init /\ [][NextPlansEdges]_vars

\* main() in place mode.  The interpreter runs main() on until it ends,
\* raises or hangs in a call, so its steps are weakly fair.
NextMain ==
  \/ MainBegin
  \/ MainClassification
  \/ MainDefectDetect
  \/ MainTest

SpecMain ==
  /\ Init
  /\ [][NextMain]_vars
  /\ WF_vars(MainBegin)
  /\ WF_vars(MainClassification)
  /\ WF_vars(MainDefectDetect)
  /\ WF_vars(MainTest)

\* dijkstra followed step by step, on the constructed graph and on graphs
\* with one more edge.  The interpreter runs a call that has begun until
\* it ends, so the steps of the loop are weakly fair.
NextSteps ==
  \/ AddEdgeDetour
  \/ DijkstraBegin
  \/ DijkstraPop
  \/ DijkstraEnd
  \/ Return

SpecSteps ==
  /\ Init
  /\ [][NextSteps]_vars
  /\ WF_vars(DijkstraPop)
  /\ WF_vars(DijkstraEnd)

-----------------------------------------------------------------------------
(* Reference definitions for the properties: distances, reachability and   *)
(* tours defined from the graph alone.                                     *)

Least(S) == CHOOSE x \in S : \A y \in S : x <= y

\* one more edge allowed on the paths behind d: the graph is undirected,
\* so the dict of v lists the edges that arrive at v
RECURSIVE RelaxRounds(_, _, _)
RelaxRounds(g, d, k) ==
  IF k = 0 THEN d
  ELSE
    LET d2 == [v \in DOMAIN d |->
                 Least({d[v]} \cup
                       {Plus(d[g[v][i][1]], g[v][i][2]) : i \in 1..Len(g[v])})]
    IN  IF d2 = d THEN d ELSE RelaxRounds(g, d2, k - 1)

\* the least total weight of a path from source to each location, Inf
\* where there is none
MinPathWeights(g, source) ==
  LET h == Touch(g, source) IN
  RelaxRounds(h, [v \in DOMAIN h |-> IF v = source THEN 0 ELSE Inf],
              Cardinality(DOMAIN h))

\* the locations some path from the locations of S reaches
RECURSIVE ReachFrom(_, _)
ReachFrom(g, S) ==
  LET T == S \cup UNION {Keys(g[u]) : u \in S \cap DOMAIN g} IN
  IF T = S THEN S ELSE ReachFrom(g, T)

PositiveWeights(g) ==
  \A u \in DOMAIN g : \A i \in 1..Len(g[u]) : g[u][i][2] > 0

IsEdge(g, u, v) == u \in DOMAIN g /\ v \in Keys(g[u])

\* the least path weights between the locations of N, as the set of the
\* tuples <<a, b, weight>>
PathWeights(g, N) ==
  UNION {LET d == MinPathWeights(g, a) IN {<<a, b, d[b]>> : b \in N} : a \in N}

Weight(D, a, b) == (CHOOSE e \in D : e[1] = a /\ e[2] = b)[3]

\* the sum of the weights of D over the consecutive stops of a tour
TourLength(D, tour) ==
  SeqSum([i \in 1..(Len(tour) - 1) |-> Weight(D, tour[i], tour[i + 1])])

\* the visiting orders of a target set
Orders(T) ==
  {o \in [1..Cardinality(T) -> T] :
     \A i, j \in 1..Cardinality(T) : i # j => o[i] # o[j]}

Count(x, seq) == Cardinality({i \in 1..Len(seq) : seq[i] = x})

\* the least path weights among the start and the targets of the call
CallDistances ==
  PathWeights(Touch(graph, call.start), Range(call.targets) \cup {call.start})

\* every target of the call is reachable from its start
TargetsReachable ==
  \A t \in Range(call.targets) : Weight(CallDistances, call.start, t) < Inf

Returned(op) == pc = "returned" /\ call.op = op

-----------------------------------------------------------------------------
(* The properties.                                                         *)

\* C1: when every target is reachable, find_optimal_path returns a total
\* distance that is the sum of the least path weights between the
\* consecutive stops of the tour it returns, and no visiting order of the
\* target set from the same start has a smaller sum.
C1_TotalIsMinimalTour ==
  Returned("find_optimal_path") =>
    LET D == CallDistances IN
    (\A t \in Range(call.targets) : Weight(D, call.start, t) < Inf) =>
      /\ ret.status = "ok"
      /\ ret.total_distance = TourLength(D, ret.optimal_path)
      /\ \A o \in Orders(Range(call.targets)) :
           ret.total_distance <= TourLength(D, <<call.start>> \o o)

\* a tour over two targets on which the visiting order matters
C1_Witness ==
  /\ Returned("find_optimal_path")
  /\ call.start = "A"
  /\ call.targets = <<"O", "B">>
  /\ ret.optimal_path = <<"A", "B", "O">>
  /\ ret.total_distance = 7

\* C2: on a positively weighted graph dijkstra(source) returns, for every
\* location, the least total weight of a path from source to it, 0 for the
\* source, and +infinity exactly for the locations no path reaches.
C2_DijkstraIsShortest ==
  (Returned("dijkstra") /\ PositiveWeights(graph)) =>
    /\ DOMAIN ret.distances = DOMAIN graph
    /\ ret.distances = MinPathWeights(graph, call.start)
    /\ ret.distances[call.start] = 0
    /\ \A n \in DOMAIN graph :
         ret.distances[n] = Inf <=> n \notin ReachFrom(graph, {call.start})

\* distances over a graph to which a caller has added a shortcut
C2_Witness ==
  /\ Returned("dijkstra")
  /\ PositiveWeights(graph)
  /\ added = 1
  /\ call.start = "A"
  /\ ret.distances["O"] = 2
  /\ ret.distances["J"] = 4

\* C3: the detailed path plan_path returns is a walk of the graph and
\* contains every requested target.
C3_DetailedPathIsWalk ==
  (Returned("plan_path") /\ ret.status = "ok") =>
    /\ \A i \in 1..(Len(ret.detailed_path) - 1) :
         IsEdge(graph, ret.detailed_path[i], ret.detailed_path[i + 1])
    /\ Range(call.targets) \subseteq Range(ret.detailed_path)

\* a plan over two targets whose detailed path passes through locations
\* that are not stops
C3_Witness ==
  /\ Returned("plan_path")
  /\ ret.status = "ok"
  /\ Cardinality(Range(call.targets)) >= 2
  /\ Len(ret.detailed_path) > Len(ret.optimal_path) + 2

\* C4: the detailed path plan_path returns never has the same location at
\* two consecutive positions.
C4_NoAdjacentDuplicate ==
  (Returned("plan_path") /\ ret.status = "ok") =>
    \A i \in 1..(Len(ret.detailed_path) - 1) :
      ret.detailed_path[i] # ret.detailed_path[i + 1]

\* a plan for a target list that repeats a target and contains the start
C4_Witness ==
  /\ Returned("plan_path")
  /\ ret.status = "ok"
  /\ call.start \in Range(call.targets)
  /\ Len(call.targets) > Cardinality(Range(call.targets))
  /\ Len(ret.detailed_path) >= 3

\* C5: the tour find_optimal_path returns begins at the start and contains
\* every required target exactly once.
C5_TourVisitsTargetsOnce ==
  (Returned("find_optimal_path") /\ ret.status = "ok" /\ TargetsReachable) =>
    /\ ret.optimal_path # <<>>
    /\ ret.optimal_path[1] = call.start
    /\ \A t \in Range(call.targets) : Count(t, ret.optimal_path) = 1

\* the command of a step with an entry in the table
CodeName(code) == <<"UP", "DOWN", "LEFT", "RIGHT">>[code + 1]

\* the path and the table of a translation that has returned
TranslatedPath == IF call.op = "get_path" THEN ret.detailed_path ELSE call.path

Translated ==
  /\ pc = "returned"
  /\ call.op \in {"get_action_sequence", "translate_plan", "get_path"}
  /\ ret.status = "ok"

\* C6: get_action_sequence returns one command for each consecutive pair of
\* a (non-empty) path, in path order: the i-th command is the table's code
\* of the step from the i-th location to the next.
C6_OneCommandPerStep ==
  (Translated /\ TranslatedPath # <<>>) =>
    /\ Len(ret.sequence) = Len(TranslatedPath) - 1
    /\ \A i \in 1..(Len(TranslatedPath) - 1) :
         ret.sequence[i] =
           CodeName(Tables[call.table][TranslatedPath[i]][TranslatedPath[i + 1]])

\* the translation of a planned path of at least three steps with a step
\* to the right
C6_Witness ==
  /\ Translated
  /\ call.op = "translate_plan"
  /\ Len(call.path) >= 4
  /\ \E i \in 1..Len(ret.sequence) : ret.sequence[i] = "RIGHT"

\* the table has an entry for every directed adjacency of the graph
TableComplete(table, g) ==
  \A u \in DOMAIN g : \A v \in Keys(g[u]) :
    u \in DOMAIN table /\ v \in DOMAIN table[u]

\* C7: with a table that has an entry for every directed adjacency of the
\* graph, get_action_sequence does not fail on a detailed path plan_path
\* has returned.
C7_TranslationNeverFails ==
  (Returned("translate_plan") /\ TableComplete(Tables[call.table], graph)) =>
    ret.status = "ok"

\* the translation, with the complete table, of a planned path that crosses
\* the adjacency D-E
C7_Witness ==
  /\ Returned("translate_plan")
  /\ call.table = "adjacency_matrix"
  /\ ret.status = "ok"
  /\ \E i \in 1..(Len(call.path) - 1) :
       call.path[i] = "D" /\ call.path[i + 1] = "E"

\* C8: with an empty target list find_optimal_path returns the tour
\* <<start>> with distance 0, plan_path also the detailed path <<start>>,
\* and the translation of that path is the empty command sequence.
C8_EmptyTargets ==
  (pc = "returned" /\ call.targets = <<>>) =>
    /\ call.op \in {"find_optimal_path", "plan_path", "translate_plan",
                    "get_path"} =>
         /\ ret.status = "ok"
         /\ ret.total_distance = 0
         /\ ret.optimal_path = <<call.start>>
    /\ call.op \in {"plan_path", "translate_plan", "get_path"} =>
         ret.detailed_path = <<call.start>>
    /\ call.op \in {"translate_plan", "get_path"} => ret.sequence = <<>>

\* the translation of the plan of an empty target list
C8_Witness ==
  /\ Returned("translate_plan")
  /\ call.targets = <<>>
  /\ call.start = "B"
  /\ ret.detailed_path = <<"B">>
  /\ ret.sequence = <<>>

\* C9: when a required target is at infinite distance from the start,
\* planning fails: neither find_optimal_path nor plan_path returns a result.
C9_UnreachableTargetFails ==
  (pc = "returned" /\ call.op \in {"find_optimal_path", "plan_path"}
     /\ ~TargetsReachable) =>
    ret.status # "ok"

\* C10: no planning operation that returns a result changes the graph.
C10_GraphImmutable ==
  [][(pc' = "returned" /\ ret'.status = "ok") => graph' = graph]_vars

\* the call names a location that no add_edge has put into the graph
NamesUnregistered ==
  call.start \notin Locations \/ ~(Range(call.targets) \subseteq Locations)

\* C11: a request (dijkstra, find_optimal_path, plan_path) that names a
\* location never added to the graph fails: it does not return a result
\* computed from an empty neighbor mapping.
C11_UnknownLocationFails ==
  (pc = "returned"
     /\ call.op \in {"dijkstra", "find_optimal_path", "plan_path"}
     /\ NamesUnregistered) =>
    ret.status # "ok"

\* C12: only positive weights are ever stored as edge weights (add_edge
\* with weight <= 0 leaves the graph unchanged).
C12_OnlyPositiveWeights == PositiveWeights(graph)

\* the graph is undirected: u lists v with weight w only if v lists u with
\* the same weight
Symmetric(g) ==
  \A u \in DOMAIN g : \A i \in 1..Len(g[u]) :
    /\ g[u][i][1] \in DOMAIN g
    /\ \E j \in 1..Len(g[g[u][i][1]]) :
         g[g[u][i][1]][j] = <<u, g[u][i][2]>>

\* C13: after construction and after any sequence of add_edge calls the
\* graph is symmetric: whenever a location lists a neighbor with weight w,
\* the neighbor lists the location with the same weight w.
C13_GraphSymmetric == Symmetric(graph)

\* add_edge('B', 'A', 2) or add_edge('A', 'B', 2) after the construction's
\* add_edge('A', 'B', 1): the pair keeps one weight, in both directions
C13_Witness ==
  /\ added = 1
  /\ graph["A"][1] = <<"B", 2>>
  /\ graph["B"][1] = <<"A", 2>>

\* every location of the graph is reachable from every other
Connected(g) == \A u \in DOMAIN g : ReachFrom(g, {u}) = DOMAIN g

\* the weight of the edge u-v, Inf where the graph has none
EdgeWeightOf(g, u, v) ==
  IF IsEdge(g, u, v)
  THEN g[u][CHOOSE i \in 1..Len(g[u]) : g[u][i][1] = v][2]
  ELSE Inf

\* the sum of the edge weights along a path
PathWeight(g, path) ==
  SeqSum([i \in 1..(Len(path) - 1) |-> EdgeWeightOf(g, path[i], path[i + 1])])

\* the table of the call is the one dijkstra(start) returns on the graph
TableIsCurrent == ret.distances = Dijkstra(graph, call.start).distances

\* C14: on a connected graph, reconstruct_path(source, target, distances)
\* with the table of dijkstra(source) returns a path that begins at source,
\* ends at target, steps only along edges of the graph, and whose edge
\* weights sum to distances[target].
C14_ReconstructedPathIsShortest ==
  (Returned("reconstruct_path") /\ Connected(graph) /\ TableIsCurrent) =>
    /\ ret.status = "ok"
    /\ ret.path # <<>>
    /\ ret.path[1] = call.start
    /\ ret.path[Len(ret.path)] = call.end
    /\ \A i \in 1..(Len(ret.path) - 1) :
         IsEdge(graph, ret.path[i], ret.path[i + 1])
    /\ PathWeight(graph, ret.path) = ret.distances[call.end]

\* C15: reconstruct_path always terminates: when a node of the backward
\* walk has no neighbor n with distances[node] = distances[n] + weight, the
\* call fails instead of looping.
C15_ReconstructTerminates ==
  Returned("reconstruct_path") => ret.status # "hang"

\* the table has an entry for the step from u to v
HasEntry(table, u, v) == u \in DOMAIN table /\ v \in DOMAIN table[u]

\* some consecutive pair of the path has no entry in the table
UntranslatableStep(path, table) ==
  \E i \in 1..(Len(path) - 1) : ~HasEntry(table, path[i], path[i + 1])

\* C16: when a consecutive pair of the path has no entry in the direction
\* table, get_action_sequence fails (the lookup raises) and returns no
\* command sequence: it never returns a sequence that omits the step.
C16_UntranslatableStepFails ==
  (pc = "returned"
     /\ call.op \in {"get_action_sequence", "translate_plan"}
     /\ UntranslatableStep(call.path, Tables[call.table])) =>
    /\ ret.status = "KeyError"
    /\ ret.sequence = <<>>

\* the translation of a planned path that crosses D-E with the table that
\* lacks the entries of D-E
C16_Witness ==
  /\ Returned("translate_plan")
  /\ call.table = "without_DE"
  /\ Len(call.path) >= 4
  /\ \E i \in 1..(Len(call.path) - 1) :
       call.path[i] = "D" /\ call.path[i + 1] = "E"
  /\ ret.status = "KeyError"

DijkstraTables(g) == {<<c, Dijkstra(g, c).distances>> : c \in DOMAIN g}

\* C19: the tables of dijkstra satisfy the triangle inequality: for all
\* locations A, B, C of the graph,
\* dijkstra(A)[B] <= dijkstra(A)[C] + dijkstra(C)[B].
C19_TriangleInequality ==
  Returned("dijkstra") =>
    \A t \in DijkstraTables(graph) : \A b \in DOMAIN graph :
      ret.distances[b] <= Plus(ret.distances[t[1]], t[2][b])

\* the list without its repeated elements, in the order of first occurrence
RECURSIVE Deduplicated(_)
Deduplicated(s) ==
  IF s = <<>> THEN <<>>
  ELSE LET r == Deduplicated(SubSeq(s, 1, Len(s) - 1)) IN
       IF s[Len(s)] \in Range(r) THEN r ELSE Append(r, s[Len(s)])

HasDuplicates(s) == Len(s) > Cardinality(Range(s))

C21_DefaultStartIsHome ==
  (pc = "returned" /\ call.op \in {"plan_path", "get_path"}) =>
    /\ Range(call.targets) \subseteq Locations => ret.status = "ok"
    /\ ret.status = "ok" =>
         /\ ret.optimal_path # <<>>
         /\ ret.optimal_path[1] = "A"
         /\ ret.detailed_path # <<>>
         /\ ret.detailed_path[1] = "A"

\* plan_path(['O', 'B']) with no start: the tour goes from 'A' over 'B'
C21_Witness ==
  /\ Returned("plan_path")
  /\ call.targets = <<"O", "B">>
  /\ ret.status = "ok"
  /\ ret.optimal_path = <<"A", "B", "O">>
  /\ ret.detailed_path[1] = "A"
  /\ Len(ret.detailed_path) = 7

-----------------------------------------------------------------------------
(* dijkstra, step by step.                                                 *)

\* a step of the while loop of dijkstra
LoopStep == pc = "dijkstra" /\ pc' = "dijkstra" /\ frame' # frame

\* the entries a step pushed
Pushed == frame'.heap \ frame.heap

NoRepeat(s) == \A i, j \in 1..Len(s) : s[i] = s[j] => i = j

\* C22: on a graph with positive weights dijkstra terminates (a call that
\* has begun returns, and on return the heap is empty), the neighbors of a
\* location are relaxed at most once, at the pop that makes it visited, and
\* every entry a step pushes carries a tentative distance that the step
\* strictly lowered.
C22_DijkstraTerminates ==
  /\ [](PositiveWeights(graph) =>
          /\ NoRepeat(frame.relaxed)
          /\ Range(frame.relaxed) = frame.visited
          /\ Returned("dijkstra") => frame.heap = {})
  /\ [][(LoopStep /\ PositiveWeights(graph)) =>
          \A e \in Pushed :
            /\ e[1] < frame.distances[e[2]]
            /\ e[1] = frame'.distances[e[2]]]_vars
  /\ (pc = "dijkstra" /\ PositiveWeights(graph)) ~> Returned("dijkstra")

\* add_edge('A', 'C', 3), dijkstra('A'): 'C' is pushed at 3 and again at 2,
\* the entry at 3 is skipped, and the call returns after relaxing the
\* neighbors of the 15 locations once each
C22_Witness ==
  /\ Returned("dijkstra")
  /\ call.start = "A"
  /\ added = 1
  /\ PositiveWeights(graph)
  /\ frame.skipped = 1
  /\ Len(frame.relaxed) = 15
  /\ frame.heap = {}
  /\ ret.distances["C"] = 2

\* C23: a step that pops a location not yet visited pops its tentative
\* distance, which is the least path weight from the start, and no step
\* changes the tentative distance of a visited location.
C23_StaleEntriesDiscarded ==
  [][LoopStep =>
      LET top == HeapMin(frame.heap) IN
        /\ top[2] \notin frame.visited =>
             /\ top[1] = frame.distances[top[2]]
             /\ top[1] = MinPathWeights(graph, call.start)[top[2]]
        /\ \A n \in frame.visited :
             frame'.distances[n] = frame.distances[n]]_vars

-----------------------------------------------------------------------------
(* The detailed path of plan_path.                                         *)

\* the path reconstruct_path returns between two stops with the table of
\* dijkstra on the first
Segment(g, a, b) == ReconstructPath(g, a, b, Dijkstra(g, a).distances).path

\* the segments between the consecutive stops from stop i on, concatenated,
\* every segment after the first of the tour without its first node
RECURSIVE SegmentsFrom(_, _, _)
SegmentsFrom(g, path, i) ==
  IF i > Len(path) - 1 THEN <<>>
  ELSE (IF i = 1 THEN Segment(g, path[i], path[i + 1])
        ELSE Tail(Segment(g, path[i], path[i + 1])))
       \o SegmentsFrom(g, path, i + 1)

RECURSIVE IsSubsequence(_, _)
IsSubsequence(s, t) ==
  IF s = <<>> THEN TRUE
  ELSE IF t = <<>> THEN FALSE
  ELSE IF Head(s) = Head(t) THEN IsSubsequence(Tail(s), Tail(t))
  ELSE IsSubsequence(s, Tail(t))

\* the detailed path of the call is the segments of its tour joined
JoinsSegments ==
  /\ ret.detailed_path = SegmentsFrom(graph, ret.optimal_path, 1)
  /\ ret.detailed_path # <<>>
  /\ ret.detailed_path[1] = ret.optimal_path[1]
  /\ ret.detailed_path[Len(ret.detailed_path)] =
       ret.optimal_path[Len(ret.optimal_path)]
  /\ IsSubsequence(ret.optimal_path, ret.detailed_path)

\* C24 as stated: the detailed path plan_path returns is the concatenation
\* of the reconstructed segments between the consecutive stops of the tour,
\* every segment after the first without its first node; it begins at the
\* first stop, ends at the last stop and has the stops as a subsequence.
C24_DetailedPathJoinsSegments ==
  (Returned("plan_path") /\ ret.status = "ok") => JoinsSegments

\* C24 amended: the statement holds for a tour of two stops or more; a tour
\* of one stop has no segment, and its detailed path is that one stop.
C24_DetailedPathJoinsSegmentsOfLegs ==
  (Returned("plan_path") /\ ret.status = "ok") =>
    /\ ret.optimal_path # <<>>
    /\ Len(ret.optimal_path) >= 2 => JoinsSegments
    /\ Len(ret.optimal_path) = 1 => ret.detailed_path = ret.optimal_path

\* plan_path(['B', 'O'], 'K'): the segments K..O and O..B share 'O'
C24_Witness ==
  /\ Returned("plan_path")
  /\ call.start = "K"
  /\ call.targets = <<"B", "O">>
  /\ ret.status = "ok"
  /\ ret.optimal_path = <<"K", "O", "B">>
  /\ ret.detailed_path =
       <<"K", "L", "M", "N", "O", "J", "E", "D", "C", "B">>

\* C25: on a connected graph the total distance plan_path returns is the
\* sum of the edge weights over the consecutive pairs of the detailed path
\* it returns.
C25_TotalDistanceIsPathWeight ==
  (Returned("plan_path") /\ ret.status = "ok" /\ Connected(graph)) =>
    ret.total_distance = PathWeight(graph, ret.detailed_path)

-----------------------------------------------------------------------------
(* The direction table and the graph.                                      *)

\* the table and the constructed graph have the same directed adjacencies,
\* and every code of the table is a direction
TablesAgree ==
  /\ DOMAIN adjacency_matrix = DOMAIN InitialGraph
  /\ \A u \in Locations : \A v \in Locations :
       IsEdge(InitialGraph, u, v) <=>
         /\ HasEntry(adjacency_matrix, u, v)
         /\ adjacency_matrix[u][v] \in 0..3

\* C26: adjacency_matrix and the graph of _initialize_graph cover the same
\* adjacencies (v is a neighbor of u in the graph exactly when the table
\* has an entry for the step from u to v, with a code among 0, 1, 2, 3), and
\* get_path returns a command sequence, one command for each step of the
\* detailed path, for every target list over the registered locations.
C26_TablesCoverSameAdjacencies ==
  /\ TablesAgree
  /\ (Returned("get_path") /\ Range(call.targets) \subseteq Locations) =>
       /\ ret.status = "ok"
       /\ Len(ret.sequence) = Len(ret.detailed_path) - 1

\* get_path(['K', 'O']): the path A F K L M N O, six steps
C26_Witness ==
  /\ Returned("get_path")
  /\ call.targets = <<"K", "O">>
  /\ ret.status = "ok"
  /\ ret.detailed_path = <<"A", "F", "K", "L", "M", "N", "O">>
  /\ ret.sequence = <<"RIGHT", "RIGHT", "UP", "UP", "UP", "UP">>

\* the opposite direction: up 0 <-> down 1, left 2 <-> right 3
Opposite(code) == <<1, 0, 3, 2>>[code + 1]

OppositeCommand(command) ==
  CASE command = "UP" -> "DOWN"
    [] command = "DOWN" -> "UP"
    [] command = "LEFT" -> "RIGHT"
    [] command = "RIGHT" -> "LEFT"

\* the opposite commands in reverse order
ReverseCommands(sequence) ==
  [i \in 1..Len(sequence) |->
     OppositeCommand(sequence[Len(sequence) + 1 - i])]

Antisymmetric(table) ==
  \A u \in DOMAIN table : \A v \in DOMAIN table[u] :
    /\ HasEntry(table, v, u)
    /\ table[v][u] = Opposite(table[u][v])

\* C27: in adjacency_matrix the code of the step from v to u is the
\* opposite direction of the code of the step from u to v, and the commands
\* of a path reversed are the opposite commands of the path in reverse
\* order.
C27_TableAntisymmetric ==
  /\ Antisymmetric(adjacency_matrix)
  /\ (Returned("get_path") /\ ret.status = "ok") =>
       LET back == GetActionSequence(Reverse(ret.detailed_path),
                                     adjacency_matrix)
       IN  /\ back.status = "ok"
           /\ back.sequence = ReverseCommands(ret.sequence)

\* get_path(['F', 'B']): the path B A F gives DOWN RIGHT, and F A B gives
\* LEFT UP
C27_Witness ==
  /\ Returned("get_path")
  /\ call.targets = <<"F", "B">>
  /\ ret.status = "ok"
  /\ ret.detailed_path = <<"A", "B", "A", "F">>
  /\ ret.sequence = <<"UP", "DOWN", "RIGHT">>
  /\ GetActionSequence(Reverse(ret.detailed_path), adjacency_matrix).sequence
       = <<"LEFT", "UP", "DOWN">>

\* the neighbors a command leads to from a location
Moves(table, u, command) ==
  IF u \in DOMAIN table
  THEN {v \in DOMAIN table[u] : CodeName(table[u][v]) = command}
  ELSE {}

\* no two neighbors of a location share a direction code
Deterministic(table) ==
  \A u \in DOMAIN table : \A v, w \in DOMAIN table[u] :
    table[u][v] = table[u][w] => v = w

\* the sequences of locations the commands from the i-th on can lead along,
\* continuing the sequences of runs
RECURSIVE Runs(_, _, _, _)
Runs(table, runs, sequence, i) ==
  IF i > Len(sequence) THEN runs
  ELSE Runs(table,
            UNION {{Append(r, v) : v \in Moves(table, r[Len(r)], sequence[i])} :
                   r \in runs},
            sequence, i + 1)

\* C28: in adjacency_matrix no two neighbors of a location share a
\* direction code, so the commands get_path returns, executed from 'A', lead
\* along exactly one sequence of locations: the detailed path, which ends
\* at the last stop of the tour.
C28_CommandsDetermineLocations ==
  /\ Deterministic(adjacency_matrix)
  /\ (Returned("get_path") /\ ret.status = "ok") =>
       /\ Runs(adjacency_matrix, {<<"A">>}, ret.sequence, 1)
            = {ret.detailed_path}
       /\ ret.detailed_path[Len(ret.detailed_path)] =
            ret.optimal_path[Len(ret.optimal_path)]

\* get_path(['O', 'K']): the six commands lead from 'A' over 'K' to 'O'
C28_Witness ==
  /\ Returned("get_path")
  /\ call.targets = <<"O", "K">>
  /\ ret.status = "ok"
  /\ ret.optimal_path = <<"A", "K", "O">>
  /\ Len(ret.sequence) = 6
  /\ Runs(adjacency_matrix, {<<"A">>}, ret.sequence, 1) =
       {<<"A", "F", "K", "L", "M", "N", "O">>}

-----------------------------------------------------------------------------
(* The trips of main()'s place mode.                                       *)

\* the locations a command sequence can end at when executed from u
EndsFrom(u, sequence) ==
  {r[Len(r)] : r \in Runs(adjacency_matrix, {<<u>>}, sequence, 1)}

\* get_path([code, 'A']) has returned the commands of a return trip
ReturnTrip ==
  /\ Returned("get_path")
  /\ Len(call.targets) = 2
  /\ call.targets[1] \in Locations
  /\ call.targets[2] = "A"
  /\ ret.status = "ok"

\* C29: the commands of get_path(['A', code]) executed from 'A' end at the
\* location code, and the commands get_path([code, 'A']) returns, executed
\* from there, follow an adjacency of the table at every step and end at
\* 'A'.
C29_ReturnTripEndsHome ==
  ReturnTrip =>
    LET code == call.targets[1] IN
      /\ \A out \in GetPath(<<"A", code>>) :
           /\ out.status = "ok"
           /\ EndsFrom("A", out.sequence) = {code}
      /\ EndsFrom(code, ret.sequence) = {"A"}

-----------------------------------------------------------------------------
(* main() in place mode.                                                   *)

\* both checks have run and passed: the class the classification was left
\* with is, renamed, the code of the request, and the defect detection was
\* left with a class that is not 'product_defect'
ChecksPassed ==
  /\ main.at = "test"
  /\ main.seen1 \in ClassNames
  /\ Rename(main.seen1) = main.code
  /\ main.seen2 \in ClassNames \ {"product_defect"}

\* C30: whenever both checks of main() have passed, main() goes on to the
\* pick-and-place sequence: it switches the magnet on and sets out to move.
C30_PassedChecksStartSequence ==
  ChecksPassed ~> (main.magnet = 1 /\ main.at = "moving")

====
